---- MODULE Spec2Model ----
(***************************************************************************)
(* Model of owtf/cli.py: the argument resolver process_options() and the   *)
(* bootstrapper main().                                                    *)
(*                                                                         *)
(* Strings are sequences of atoms.  An atom is one character (":", "/",    *)
(* "-", " ", "\n", a digit) or one indivisible lexeme ("socks", "help",    *)
(* "p1", "%s").  Python's None and '' are both falsy and both pass through *)
(* process_options unchanged, so an option that was not given is the empty *)
(* string <<>>.  Lists are sequences, dicts are functions.                 *)
(***************************************************************************)
EXTENDS Naturals, Integers, Sequences, FiniteSets, TLC

VARIABLES
    pc,           \* position of main()
    calls,        \* collaborators invoked so far, in order
    engine,       \* engine calls so far with their outcomes: <<call, outcome>>
    user_args,    \* the namespace parse_options() produced from argv[1:]
    files,        \* the file system: path |-> content of a regular file
    opts,         \* <<>> before process_options ran, then <<its final state>>
    cli_options,  \* config_handler.cli_options: <<>> while unset, then <<cfg>>
    owtf_pid,     \* os.getpid(), captured at line 224
    cleaned,      \* arguments clean_temp_storage_dirs was called with, in order
    pending,      \* exception in flight when the finally clause is entered
    result        \* how main() gave up control ("" while running)

vars == <<pc, calls, engine, user_args, files, opts, cli_options, owtf_pid,
          cleaned, pending, result>>

(***************************************************************************)
(* Bounds of the model.                                                    *)
(***************************************************************************)
MaxProxyLen == 5
MaxTorLen == 7
MaxPluginListLen == 3
MaxTargets == 2
MaxTargetLen == 1
MaxFileLen == 5
MaxPid == 2

SeqsUpTo(S, n) == UNION {[1..k -> S] : k \in 0..n}

(***************************************************************************)
(* String primitives.                                                      *)
(***************************************************************************)
RECURSIVE SplitRec(_, _, _, _)
SplitRec(s, sep, i, cur) ==
    IF i > Len(s) THEN <<cur>>
    ELSE IF i + Len(sep) - 1 <= Len(s) /\ SubSeq(s, i, i + Len(sep) - 1) = sep
         THEN <<cur>> \o SplitRec(s, sep, i + Len(sep), <<>>)
         ELSE SplitRec(s, sep, i + 1, Append(cur, s[i]))

\* str.split(sep): the fields between the non-overlapping occurrences of sep,
\* scanned left to right; always at least one field.
Split(s, sep) == SplitRec(s, sep, 1, <<>>)

Whitespace == {" ", "\n"}

RECURSIVE LStrip(_)
LStrip(s) == IF s # <<>> /\ Head(s) \in Whitespace THEN LStrip(Tail(s)) ELSE s

RECURSIVE RStrip(_)
RStrip(s) ==
    IF s # <<>> /\ s[Len(s)] \in Whitespace THEN RStrip(SubSeq(s, 1, Len(s) - 1)) ELSE s

\* str.strip()
Strip(s) == LStrip(RStrip(s))

\* The atoms that are written with decimal digits only.
Digits == {"1", "9", "9050"}

\* int(s) succeeds.  The alphabets of the proxy strings hold no sign and no
\* blank, so int() accepts exactly the non-empty digit strings.
IsInt(s) == s # <<>> /\ \A i \in 1..Len(s) : s[i] \in Digits

RECURSIVE Format(_, _)
\* str.format(*args): each replacement field "{}" takes the next argument;
\* every other atom of the template, "%s" included, is copied.
Format(tpl, args) ==
    IF tpl = <<>> THEN <<>>
    ELSE IF Head(tpl) = "{}" /\ args # <<>>
         THEN Head(args) \o Format(Tail(tpl), Tail(args))
         ELSE <<Head(tpl)>> \o Format(Tail(tpl), args)

\* list.pop(): the list without its last element, and that element.
PopRest(l) == SubSeq(l, 1, Len(l) - 1)
PopItem(l) == l[Len(l)]

(***************************************************************************)
(* File system.                                                            *)
(***************************************************************************)
\* The paths that exist are the regular files; there are no directories.
PathExists(p) == p \in DOMAIN files
IsFile(p) == p \in DOMAIN files

(***************************************************************************)
(* Collaborators of owtf.managers.plugin and owtf.lib.cli_options.         *)
(***************************************************************************)
\* The plugin registry: plugin code or name |-> owning group.
PluginOwner(plugin) ==
    IF plugin \in {<<"p1">>, <<"p2">>} THEN "web"
    ELSE IF plugin = <<"n1">> THEN "network"
    ELSE IF plugin = <<"x1">> THEN "auxiliary"
    ELSE "none"

\* get_groups_for_plugins(plugins): the distinct groups owning the plugins.
get_groups_for_plugins(plugins) ==
    {PluginOwner(plugins[i]) : i \in 1..Len(plugins)} \ {"none"}

\* get_types_for_plugin_group(group): the types registered for the group.
get_types_for_plugin_group(group) ==
    IF group = "web" THEN <<"passive", "semi_passive", "active", "grep">>
    ELSE IF group = "network" THEN <<"active", "bruteforce">>
    ELSE IF group = "auxiliary" THEN <<"exploit", "dos">>
    ELSE <<>>

\* usage(msg): prints the usage text and the message and exits the process.
usage(st, msg) == [st EXCEPT !.status = "usage", !.error = msg]

(***************************************************************************)
(* process_options, one operator per block of the function.  A block takes *)
(* the local state st = [status, error, arg, plugin_group, profiles,       *)
(* scope, args] and returns it as the block leaves it; status is "run"     *)
(* while the function is executing, and a block that is entered after the  *)
(* function has terminated changes nothing.                                *)
(***************************************************************************)
\* Lines 70-80: the locals after parse_options() returned arg.  parse_options
\* is a collaborator; user_args is the namespace it returned, so the runs
\* that it ends itself (an unknown group or type) are not among the inputs.
StartOptions(arg) ==
    [status |-> "run", error |-> "", arg |-> arg,
     plugin_group |-> arg.PluginGroup, profiles |-> <<>>,
     scope |-> <<>>, args |-> <<>>]

\* Line 86: the pseudo-validation of one name:path pair.
InvalidProfile(profile) ==
    LET chunks == Split(profile, <<":">>)
    IN  Len(chunks) # 2 \/ ~PathExists(chunks[2])

RECURSIVE ProfilesDict(_)
\* Line 89 over the list of pairs: a later pair overrides an earlier one.
ProfilesDict(pairs) ==
    IF pairs = <<>> THEN <<>>
    ELSE LET chunks == Split(pairs[Len(pairs)], <<":">>)
         IN  (chunks[1] :> chunks[2]) @@ ProfilesDict(PopRest(pairs))

\* Lines 82-89.
CustomProfileBlock(st) ==
    IF st.status # "run" \/ st.arg.CustomProfile = <<>> THEN st
    ELSE LET pairs == Split(st.arg.CustomProfile, <<",">>)
         IN  IF \E i \in 1..Len(pairs) : InvalidProfile(pairs[i])
             THEN usage(st, "Invalid Profile")
             ELSE [st EXCEPT !.profiles = ProfilesDict(pairs)]

\* Lines 47-59: [plugins, plugin_groups], or the usage exit.
get_plugins_from_arg(st, arg) ==
    LET plugins == Split(arg, <<",">>)
        plugin_groups == get_groups_for_plugins(plugins)
    IN  IF Cardinality(plugin_groups) > 1
        THEN [st |-> usage(st, "The plugins specified belong to several plugin groups"),
              plugins |-> plugins, plugin_groups |-> plugin_groups]
        ELSE [st |-> st, plugins |-> plugins, plugin_groups |-> plugin_groups]

\* Lines 91-98.  plugin_groups holds at most one group here, so
\* plugin_groups[0] is that group, or IndexError when there is none.
OnlyPluginsBlock(st) ==
    IF st.status # "run" \/ st.arg.OnlyPlugins = <<>> THEN st
    ELSE LET r == get_plugins_from_arg(st, st.arg.OnlyPlugins)
         IN  IF r.st.status # "run" THEN r.st
             ELSE IF r.plugin_groups = {}
                  THEN usage(st, "Please use either OWASP/OWTF codes or Plugin names")
                  ELSE [st EXCEPT !.arg.OnlyPlugins = r.plugins,
                                  !.plugin_group = CHOOSE g \in r.plugin_groups : TRUE]

\* Lines 100-101.
ExceptPluginsBlock(st) ==
    IF st.status # "run" \/ st.arg.ExceptPlugins = <<>> THEN st
    ELSE LET r == get_plugins_from_arg(st, st.arg.ExceptPlugins)
         IN  IF r.st.status # "run" THEN r.st
             ELSE [st EXCEPT !.arg.ExceptPlugins = r.plugins]

\* Lines 103-124.  "help" as the first field leaves the process with exit(0);
\* five fields overwrite arg.OutboundProxy with the formatted template.
TorModeBlock(st) ==
    IF st.status # "run" \/ st.arg.TOR_mode = <<>> THEN st
    ELSE LET tor == Split(st.arg.TOR_mode, <<":">>)
             st1 == [st EXCEPT !.arg.TOR_mode = tor]
             outbound_proxy_ip ==
                 IF tor[1] = <<>> THEN <<"127.0.0.1">> ELSE tor[1]
             outbound_proxy_port ==
                 IF tor[2] = <<>> THEN <<"9050">> ELSE tor[2]
         IN  IF tor[1] = <<"help">>
             THEN [st1 EXCEPT !.status = "exit0"]
             ELSE IF Len(tor) = 1
                  THEN usage(st1, "Invalid argument for TOR-mode")
                  ELSE IF Len(tor) # 5
                       THEN usage(st1, "Invalid argument for TOR-mode")
                       ELSE [st1 EXCEPT !.arg.OutboundProxy =
                                Format(<<"socks", ":", "/", "/", "%s", ":", "%s">>,
                                       <<outbound_proxy_ip, outbound_proxy_port>>)]

\* Lines 127-133: the list arg.OutboundProxy becomes.  In line 129 the left
\* operand is the list object itself, which pop() shortens before the lists
\* are concatenated: [scheme] + rest.split(':').
OutboundFields(s) ==
    LET parts == Split(s, <<":", "/", "/">>)
    IN  IF Len(parts) = 2
        THEN PopRest(parts) \o Split(PopItem(parts), <<":">>)
        ELSE Split(PopItem(parts), <<":">>)

\* Lines 126-141.
OutboundProxyBlock(st) ==
    IF st.status # "run" \/ st.arg.OutboundProxy = <<>> THEN st
    ELSE LET outbound == OutboundFields(st.arg.OutboundProxy)
             st1 == [st EXCEPT !.arg.OutboundProxy = outbound]
         IN  IF Len(Split(st.arg.OutboundProxy, <<":", "/", "/">>)) = 2
                /\ outbound[1] \notin {<<"socks">>, <<"http">>}
             THEN usage(st1, "Invalid argument for Outbound Proxy")
             ELSE IF Len(outbound) \notin {2, 3}
                  THEN usage(st1, "Invalid argument for Outbound Proxy")
                  ELSE IF ~IsInt(outbound[Len(outbound)])
                       THEN usage(st1, "Invalid port provided for Outbound Proxy")
                       ELSE st1

\* Lines 143-152.
InboundProxyBlock(st) ==
    IF st.status # "run" \/ st.arg.InboundProxy = <<>> THEN st
    ELSE LET inbound == Split(st.arg.InboundProxy, <<":">>)
             st1 == [st EXCEPT !.arg.InboundProxy = inbound]
         IN  IF Len(inbound) \notin {1, 2}
             THEN usage(st1, "Invalid argument for Inbound Proxy")
             ELSE IF ~IsInt(inbound[Len(inbound)])
                  THEN usage(st1, "Invalid port for Inbound Proxy")
                  ELSE st1

\* PluginTypeBlock expanding 'all' for the group given on the command line.
PluginTypeBlockOfRequestedGroup(st) ==
    IF st.status # "run" THEN st
    ELSE IF st.arg.PluginType = "all"
         THEN [st EXCEPT !.arg.PluginType =
                             get_types_for_plugin_group(st.arg.PluginGroup)]
         ELSE IF st.arg.PluginType = "quiet"
              THEN [st EXCEPT !.arg.PluginType = <<"passive", "semi_passive">>]
              ELSE st

\* Lines 154-158: the types of the plugin group as the blocks above left it.
PluginTypeBlock(st) ==
    IF st.status # "run" THEN st
    ELSE IF st.arg.PluginType = "all"
         THEN [st EXCEPT !.arg.PluginType = get_types_for_plugin_group(st.plugin_group)]
         ELSE IF st.arg.PluginType = "quiet"
              THEN [st EXCEPT !.arg.PluginType = <<"passive", "semi_passive">>]
              ELSE st

RECURSIVE CleanTargetsKeepsBlank(_)
\* CleanTargets without the test of line 171.
CleanTargetsKeepsBlank(lines) ==
    IF lines = <<>> THEN <<>>
    ELSE <<Strip(Head(lines))>> \o CleanTargetsKeepsBlank(Tail(lines))

RECURSIVE CleanTargets(_)
\* Lines 168-173: the stripped lines of the scope file that are not blank.
CleanTargets(lines) ==
    IF lines = <<>> THEN <<>>
    ELSE LET CleanTarget == Strip(Head(lines))
         IN  IF CleanTarget = <<>> THEN CleanTargets(Tail(lines))
             ELSE <<CleanTarget>> \o CleanTargets(Tail(lines))

\* Lines 160-176.
ScopeBlock(st) ==
    IF st.status # "run" THEN st
    ELSE LET scope == st.arg.Targets
             num_targets == Len(scope)
             st1 == [st EXCEPT !.scope = scope]
         IN  IF st.plugin_group # "auxiliary" /\ num_targets = 0 /\ ~st.arg.list_plugins
             THEN st1
             ELSE IF num_targets = 1 /\ IsFile(scope[1])
                  THEN LET new_scope == CleanTargets(Split(files[scope[1]], <<"\n">>))
                       IN  IF Len(new_scope) = 0
                           THEN usage(st1, "Please provide a scope file (1 target x line)")
                           ELSE [st EXCEPT !.scope = new_scope]
                  ELSE st1

\* Lines 178-180: the loop stops at the first target it cannot pass; target[0]
\* of an empty string raises IndexError, which nothing catches.
TargetsBlock(st) ==
    IF st.status # "run" THEN st
    ELSE LET stop == {i \in 1..Len(st.scope) :
                          st.scope[i] = <<>> \/ st.scope[i][1] = "-"}
         IN  IF stop = {} THEN st
             ELSE LET i == CHOOSE j \in stop : \A k \in stop : j <= k
                  IN  IF st.scope[i] = <<>>
                      THEN [st EXCEPT !.status = "IndexError"]
                      ELSE usage(st, "Invalid Target")

\* Lines 182-187.
AuxiliaryBlock(st) ==
    IF st.status # "run" THEN st
    ELSE IF st.plugin_group = "auxiliary"
         THEN [st EXCEPT !.args = st.scope, !.scope = <<<<"auxiliary">>>>]
         ELSE st

\* Lines 189-210: the returned dictionary (the flags that are copied from arg
\* untouched and read by no block are left out).
ReturnBlock(st) ==
    IF st.status # "run" THEN st ELSE [st EXCEPT !.status = "ok"]

Cfg(st) ==
    [list_plugins |-> st.arg.list_plugins,
     Scope |-> st.scope,
     PluginType |-> st.arg.PluginType,
     OnlyPlugins |-> st.arg.OnlyPlugins,
     ExceptPlugins |-> st.arg.ExceptPlugins,
     InboundProxy |-> st.arg.InboundProxy,
     OutboundProxy |-> st.arg.OutboundProxy,
     Profiles |-> st.profiles,
     PluginGroup |-> st.plugin_group,
     TOR_mode |-> st.arg.TOR_mode,
     Args |-> st.args]

\* Lines 62-210, in the order of the source.
process_options(arg) ==
    LET s0 == StartOptions(arg)
        s1 == CustomProfileBlock(s0)
        s2 == OnlyPluginsBlock(s1)
        s3 == ExceptPluginsBlock(s2)
        s4 == TorModeBlock(s3)
        s5 == OutboundProxyBlock(s4)
        s6 == InboundProxyBlock(s5)
        s7 == PluginTypeBlock(s6)
        s8 == ScopeBlock(s7)
        s9 == TargetsBlock(s8)
        s10 == AuxiliaryBlock(s9)
    IN  ReturnBlock(s10)

(***************************************************************************)
(* main().                                                                 *)
(***************************************************************************)
\* Lines 227-236, in the order of the source.
LoadOrder ==
    <<"_ensure_default_session", "load_framework_config_file",
      "load_config_db_file", "load_resources_from_file",
      "load_mappings_from_file", "load_test_groups:web",
      "load_test_groups:net", "load_test_groups:aux", "load_plugins">>

\* What a call into the engine can do besides returning.
EngineRaises == {"KeyboardInterrupt", "SystemExit", "Exception"}

\* LoadCall with load_plugins() left out.
LoadCallSkipsPlugins ==
    /\ pc = "load"
    /\ calls' = Append(calls, LoadOrder[Len(calls) + 1])
    /\ pc' = IF Len(calls) + 1 = Len(LoadOrder) - 1 THEN "process_options" ELSE "load"
    /\ UNCHANGED <<engine, user_args, files, opts, cli_options, owtf_pid,
                   cleaned, pending, result>>

\* Lines 227-236: the next collaborator is called and returns.
LoadCall ==
    /\ pc = "load"
    /\ calls' = Append(calls, LoadOrder[Len(calls) + 1])
    /\ pc' = IF Len(calls) + 1 = Len(LoadOrder) THEN "process_options" ELSE "load"
    /\ UNCHANGED <<engine, user_args, files, opts, cli_options, owtf_pid,
                   cleaned, pending, result>>

\* Lines 237-238: the next collaborator raises DatabaseNotRunning.
LoadDatabaseNotRunning ==
    /\ pc = "load"
    /\ calls' = Append(calls, LoadOrder[Len(calls) + 1])
    /\ pc' = "done"
    /\ result' = "sys.exit(-1)"
    /\ UNCHANGED <<engine, user_args, files, opts, cli_options, owtf_pid,
                   cleaned, pending>>

\* ProcessOptionsCall with main() going on whatever process_options did.
ProcessOptionsCallIgnoresExit ==
    /\ pc = "process_options"
    /\ opts' = <<process_options(user_args)>>
    /\ calls' = Append(calls, "process_options")
    /\ pc' = "publish"
    /\ UNCHANGED <<engine, user_args, files, cli_options, owtf_pid, cleaned,
                   pending, result>>

\* Line 240.  The exits of process_options are raised outside every try
\* statement of main() and leave it at once.
ProcessOptionsCall ==
    /\ pc = "process_options"
    /\ LET st == process_options(user_args)
       IN  /\ opts' = <<st>>
           /\ calls' = Append(calls, "process_options")
           /\ pc' = IF st.status = "ok" THEN "publish" ELSE "done"
           /\ result' = IF st.status = "ok" THEN result ELSE st.status
    /\ UNCHANGED <<engine, user_args, files, cli_options, owtf_pid, cleaned,
                   pending>>

\* Line 241: a deep copy of a value is the value.
Publish ==
    /\ pc = "publish"
    /\ cli_options' = <<Cfg(opts[1])>>
    /\ pc' = "core_start"
    /\ UNCHANGED <<calls, engine, user_args, files, opts, owtf_pid, cleaned,
                   pending, result>>

\* AfterRaise without the except KeyboardInterrupt clause.
AfterRaiseNoHandler(outcome) == "finally"

\* Where the try statement of lines 245-258 goes when its body raises.
AfterRaise(outcome) ==
    IF outcome = "KeyboardInterrupt" THEN "except_KeyboardInterrupt" ELSE "finally"

\* What is in flight when the body's exception reaches the finally clause:
\* SystemExit is handled (line 256), KeyboardInterrupt has its own handler.
PendingAfterRaise(outcome) ==
    IF outcome = "Exception" THEN "Exception" ELSE "none"

\* Line 246.
CoreStart ==
    /\ pc = "core_start"
    /\ calls' = Append(calls, "core.start")
    /\ \E outcome \in {"True", "False"} \cup EngineRaises :
          /\ engine' = Append(engine, <<"start", outcome>>)
          /\ pc' = IF outcome = "True" THEN "core_finish"
                   ELSE IF outcome = "False" THEN "finally"
                   ELSE AfterRaise(outcome)
          /\ pending' = IF outcome \in EngineRaises
                        THEN PendingAfterRaise(outcome) ELSE pending
    /\ UNCHANGED <<user_args, files, opts, cli_options, owtf_pid, cleaned, result>>

\* Line 248.
CoreFinish ==
    /\ pc = "core_finish"
    /\ calls' = Append(calls, "core.finish")
    /\ \E outcome \in {"return"} \cup EngineRaises :
          /\ engine' = Append(engine, <<"finish", outcome>>)
          /\ pc' = IF outcome = "return" THEN "finally" ELSE AfterRaise(outcome)
          /\ pending' = IF outcome \in EngineRaises
                        THEN PendingAfterRaise(outcome) ELSE pending
    /\ UNCHANGED <<user_args, files, opts, cli_options, owtf_pid, cleaned, result>>

\* InterruptedFinish with the cleanup run only when the handler returns.
InterruptedFinishSkipsFinally ==
    /\ pc = "except_KeyboardInterrupt"
    /\ calls' = Append(calls, "core.finish")
    /\ \E outcome \in {"return"} \cup EngineRaises :
          /\ engine' = Append(engine, <<"finish", outcome>>)
          /\ pending' = IF outcome = "return" THEN "none" ELSE outcome
          /\ pc' = IF outcome = "return" THEN "finally" ELSE "done"
          /\ result' = IF outcome = "return" THEN result ELSE outcome
    /\ UNCHANGED <<user_args, files, opts, cli_options, owtf_pid, cleaned>>

\* InterruptedFinish with an interrupt of the handler handled again.
InterruptedFinishRetries ==
    /\ pc = "except_KeyboardInterrupt"
    /\ calls' = Append(calls, "core.finish")
    /\ \E outcome \in {"return"} \cup EngineRaises :
          /\ engine' = Append(engine, <<"finish", outcome>>)
          /\ pending' = IF outcome \in {"return", "KeyboardInterrupt"}
                        THEN "none" ELSE outcome
          /\ pc' = IF outcome = "KeyboardInterrupt"
                   THEN "except_KeyboardInterrupt" ELSE "finally"
    /\ UNCHANGED <<user_args, files, opts, cli_options, owtf_pid, cleaned, result>>

\* Lines 249-254.  The handler is not inside the try body: what its call
\* raises is caught by no clause of the statement and stays in flight.
InterruptedFinish ==
    /\ pc = "except_KeyboardInterrupt"
    /\ calls' = Append(calls, "core.finish")
    /\ \E outcome \in {"return"} \cup EngineRaises :
          /\ engine' = Append(engine, <<"finish", outcome>>)
          /\ pending' = IF outcome = "return" THEN "none" ELSE outcome
    /\ pc' = "finally"
    /\ UNCHANGED <<user_args, files, opts, cli_options, owtf_pid, cleaned, result>>

\* Lines 257-258, then main() returns or the exception in flight leaves it.
Cleanup ==
    /\ pc = "finally"
    /\ calls' = Append(calls, "clean_temp_storage_dirs")
    /\ cleaned' = Append(cleaned, owtf_pid)
    /\ pc' = "done"
    /\ result' = IF pending = "none" THEN "returned" ELSE pending
    /\ UNCHANGED <<engine, user_args, files, opts, cli_options, owtf_pid, pending>>

(***************************************************************************)
(* Inputs.                                                                 *)
(***************************************************************************)
DefaultArg ==
    [PluginGroup |-> "web", PluginType |-> "all", CustomProfile |-> <<>>,
     OnlyPlugins |-> <<>>, ExceptPlugins |-> <<>>, TOR_mode |-> <<>>,
     OutboundProxy |-> <<>>, InboundProxy |-> <<>>, Targets |-> <<>>,
     list_plugins |-> FALSE]

ScopePath == <<"f">>
NoFiles == <<>>
FileWith(content) == (ScopePath :> content)

MainArgs ==
    {[DefaultArg EXCEPT !.PluginGroup = g, !.CustomProfile = c, !.OnlyPlugins = o,
                        !.TOR_mode = t, !.OutboundProxy = p, !.Targets = ts] :
        g \in {"web", "auxiliary"},
        c \in {<<>>, <<"g", ":", "f">>},
        o \in {<<>>, <<"p1">>, <<"p1", ",", "n1">>},
        t \in {<<>>, <<"help">>, <<":", ":", "u", ":", "u", ":", "u">>},
        p \in {<<>>, <<"socks", ":", "/", "/", "x", ":", "9">>},
        ts \in {<<>>, <<<<"a">>>>, <<<<"a">>, <<"-">>>>, <<<<>>>>, <<ScopePath>>}}

\* The state of main() at line 226, with the arguments and the file system
\* the process was started with.
Started(arg, fs, pid) ==
    /\ pc = "load"
    /\ calls = <<>>
    /\ engine = <<>>
    /\ user_args = arg
    /\ files = fs
    /\ opts = <<>>
    /\ cli_options = <<>>
    /\ owtf_pid = pid
    /\ cleaned = <<>>
    /\ pending = "none"
    /\ result = ""

\* The state of main() at line 240, every collaborator having returned.
Loaded(arg, fs) ==
    /\ pc = "process_options"
    /\ calls = LoadOrder
    /\ engine = <<>>
    /\ user_args = arg
    /\ files = fs
    /\ opts = <<>>
    /\ cli_options = <<>>
    /\ owtf_pid = 1
    /\ cleaned = <<>>
    /\ pending = "none"
    /\ result = ""

Init ==
    \E arg \in MainArgs, fs \in {NoFiles, FileWith(<<"a", "\n">>)}, pid \in 1..MaxPid :
        Started(arg, fs, pid)

Next ==
    \/ LoadCall
    \/ LoadDatabaseNotRunning
    \/ ProcessOptionsCall
    \/ Publish
    \/ CoreStart
    \/ CoreFinish
    \/ InterruptedFinish
    \/ Cleanup

Spec == Init /\ [][Next]_vars

(***************************************************************************)
(* process_options on bounded inputs: main() at line 240, every            *)
(* collaborator having returned, with one family of options varied.        *)
(***************************************************************************)
NextOptions == ProcessOptionsCall

ProxyChars == {"socks", "ftp", ":", "/", "9", "x"}
TorChars == {"help", ":", "9", "u"}
InboundChars == {":", "9", "x"}

InitProxy ==
    \/ \E k \in 0..MaxProxyLen : \E s \in [1..k -> ProxyChars] :
          Loaded([DefaultArg EXCEPT !.OutboundProxy = s], NoFiles)
    \/ \E k \in 0..MaxTorLen : \E t \in [1..k -> TorChars] :
          \E s \in {<<>>, <<"x", ":", "9">>} :
             Loaded([DefaultArg EXCEPT !.TOR_mode = t, !.OutboundProxy = s], NoFiles)
    \/ \E k \in 0..MaxProxyLen : \E s \in [1..k -> InboundChars] :
          Loaded([DefaultArg EXCEPT !.InboundProxy = s], NoFiles)

SpecProxy == InitProxy /\ [][NextOptions]_vars

PluginChars == {"p1", "p2", "n1", "zz", ","}

InitPlugins ==
    \E g \in {"web", "network", "auxiliary"}, ty \in {"all", "quiet", "active"} :
       \E k \in 0..MaxPluginListLen : \E l \in [1..k -> PluginChars] :
          \/ \E e \in {<<>>, <<"p1">>, <<"p1", ",", "n1">>} :
                Loaded([DefaultArg EXCEPT !.PluginGroup = g, !.PluginType = ty,
                                          !.OnlyPlugins = l, !.ExceptPlugins = e],
                       NoFiles)
          \/ \E o \in {<<>>, <<"p1">>, <<"n1">>} :
                Loaded([DefaultArg EXCEPT !.PluginGroup = g, !.PluginType = ty,
                                          !.OnlyPlugins = o, !.ExceptPlugins = l],
                       NoFiles)

SpecPlugins == InitPlugins /\ [][NextOptions]_vars

TargetChars == {"a", "-"}
FileChars == {"a", "b", "-", " ", "\n"}

TargetStrings == SeqsUpTo(TargetChars, MaxTargetLen) \cup {ScopePath}

InitScope ==
    \E g \in {"web", "auxiliary"}, lp \in BOOLEAN :
       \/ \E n \in 0..MaxTargets : \E ts \in [1..n -> TargetStrings] :
             \E fs \in {NoFiles, FileWith(<<"a", "\n">>)} :
                Loaded([DefaultArg EXCEPT !.Targets = ts, !.PluginGroup = g,
                                          !.list_plugins = lp], fs)
       \/ \E k \in 0..MaxFileLen : \E c \in [1..k -> FileChars] :
             Loaded([DefaultArg EXCEPT !.Targets = <<ScopePath>>, !.PluginGroup = g,
                                       !.list_plugins = lp], FileWith(c))

SpecScope == InitScope /\ [][NextOptions]_vars

(***************************************************************************)
(* Properties of main(), checked under Spec.                               *)
(***************************************************************************)
Count(seq, x) == Cardinality({i \in 1..Len(seq) : seq[i] = x})

Invoked(call) == \E i \in 1..Len(calls) : calls[i] = call

LastCallIsCleanup ==
    /\ calls # <<>>
    /\ calls[Len(calls)] = "clean_temp_storage_dirs"
    /\ cleaned = <<owtf_pid>>

C2_StartOnlyAfterBootstrap ==
    /\ (pc = "core_start" \/ Invoked("core.start")) =>
          /\ SubSeq(calls, 1, Len(LoadOrder) + 1) = LoadOrder \o <<"process_options">>
          /\ opts # <<>>
          /\ opts[1].status = "ok"
          /\ cli_options = <<Cfg(opts[1])>>
    /\ Invoked("core.start") => calls[Len(LoadOrder) + 2] = "core.start"
    /\ result \in {"sys.exit(-1)", "usage"} =>
          ~Invoked("core.start") /\ cli_options = <<>>

C2_Witness ==
    /\ Invoked("core.start")
    /\ cli_options # <<>>
    /\ cli_options[1].PluginGroup = "auxiliary"
    /\ cli_options[1].Args = << <<"a">> >>

PersistenceCalls == {LoadOrder[i] : i \in 1..Len(LoadOrder)}

\* C3 as stated: when a usage error ends the run, none of the collaborators
\* that touch persistent state has been invoked.
C3_UsageBeforePersistence ==
    result = "usage" => \A i \in 1..Len(calls) : calls[i] \notin PersistenceCalls

\* C3 amended: when a usage error ends the run, the session and every loader
\* have been invoked, in order, and nothing else has: the configuration is
\* not published, the engine is not started, nothing is cleaned up.
C3_UsageBeforePublish ==
    result = "usage" =>
        /\ calls = LoadOrder \o <<"process_options">>
        /\ cli_options = <<>>
        /\ engine = <<>>
        /\ cleaned = <<>>

C3_Witness ==
    /\ result = "usage"
    /\ opts[1].error = "Invalid Target"
    /\ calls = LoadOrder \o <<"process_options">>

\* The engine call number i was made from the body of the try statement
\* (line 246 or line 248), not from the interrupt handler (line 254).
InTryBody(i) == i = 1 \/ (i = 2 /\ engine[1] = <<"start", "True">>)

StartAndFinishRule ==
    /\ engine[1] = <<"start", "True">> =>
          Len(engine) >= 2 /\ engine[2][1] = "finish"
    /\ engine[1] = <<"start", "False">> => Len(engine) = 1

\* C4 as stated: finish follows a true start and not a false one; a
\* KeyboardInterrupt raised by start or finish is caught and finish is
\* invoked after it; a SystemExit raised by start or finish is swallowed:
\* main returns normally and no finish follows.
C4_EngineProtocol ==
    (pc = "done" /\ engine # <<>>) =>
        /\ StartAndFinishRule
        /\ \A i \in 1..Len(engine) :
              /\ engine[i][2] = "KeyboardInterrupt" =>
                    /\ i < Len(engine)
                    /\ engine[i + 1][1] = "finish"
                    /\ result # "KeyboardInterrupt"
              /\ engine[i][2] = "SystemExit" =>
                    i = Len(engine) /\ result = "returned"

\* C4 amended: the same for the calls made from the body of the try
\* statement; what the finish called from the interrupt handler raises is not
\* caught and leaves main() after the cleanup.
C4_EngineProtocolInTryBody ==
    (pc = "done" /\ engine # <<>>) =>
        /\ StartAndFinishRule
        /\ \A i \in 1..Len(engine) :
              IF InTryBody(i)
              THEN /\ engine[i][2] = "KeyboardInterrupt" =>
                         /\ i < Len(engine)
                         /\ engine[i + 1][1] = "finish"
                         /\ ~InTryBody(i + 1)
                   /\ engine[i][2] = "SystemExit" =>
                         i = Len(engine) /\ result = "returned"
              ELSE /\ i = Len(engine)
                   /\ engine[i][1] = "finish"
                   /\ result = IF engine[i][2] = "return" THEN "returned"
                               ELSE engine[i][2]
                   /\ LastCallIsCleanup

C4_Witness ==
    /\ pc = "done"
    /\ engine = << <<"start", "True">>, <<"finish", "KeyboardInterrupt">>,
                   <<"finish", "return">> >>
    /\ result = "returned"

\* C10 as stated: core.finish is invoked at most once in a run.
C10_FinishAtMostOnce == Count(calls, "core.finish") <= 1

\* C10 amended: core.finish is invoked at most twice in a run, and twice only
\* when start returned true and a KeyboardInterrupt was raised while the
\* first finish was executing.
C10_FinishAtMostTwice ==
    /\ Count(calls, "core.finish") <= 2
    /\ Count(calls, "core.finish") = 2 =>
          /\ engine[1] = <<"start", "True">>
          /\ engine[2] = <<"finish", "KeyboardInterrupt">>

C10_Witness ==
    /\ pc = "done"
    /\ Count(calls, "core.finish") = 2
    /\ engine[2] = <<"finish", "KeyboardInterrupt">>

(***************************************************************************)
(* Properties of the proxy grammars, checked under SpecProxy.              *)
(***************************************************************************)
\* C5: a TOR-mode string of five colon-delimited fields whose port is blank
\* or a number yields OutboundProxy [socks, ip, port], 127.0.0.1 and 9050
\* standing in for a blank ip and port; a string of any other number of
\* fields that does not ask for help is a usage error.
C5_TorDerivesOutbound ==
    (opts # <<>> /\ user_args.TOR_mode # <<>>) =>
        LET tor == Split(user_args.TOR_mode, <<":">>)
            ip == IF tor[1] = <<>> THEN <<"127.0.0.1">> ELSE tor[1]
            port == IF tor[2] = <<>> THEN <<"9050">> ELSE tor[2]
        IN  IF tor[1] = <<"help">> THEN TRUE
            ELSE IF Len(tor) = 5
                 THEN IsInt(port) =>
                         /\ opts[1].status = "ok"
                         /\ Cfg(opts[1]).OutboundProxy = << <<"socks">>, ip, port >>
                 ELSE opts[1].status = "usage"

SchemeSeparator == <<":", "/", "/">>

\* (a) of C7: the text before the scheme separator, when there is one.
SchemeRecognised(s) ==
    LET parts == Split(s, SchemeSeparator)
    IN  Len(parts) >= 2 => parts[1] \in {<<"socks">>, <<"http">>}

\* (b) of C7: what follows the scheme is host:port or host:port:extra.
HostAndPort(s) ==
    LET parts == Split(s, SchemeSeparator)
        remainder == IF Len(parts) = 1 THEN s
                     ELSE SubSeq(s, Len(parts[1]) + Len(SchemeSeparator) + 1, Len(s))
    IN  Len(Split(remainder, <<":">>)) \in {2, 3}

\* (c) of C7: the final colon-delimited field is a number.
PortIsInt(s) == LET f == Split(s, <<":">>) IN IsInt(f[Len(f)])

\* C7: an outbound proxy string that is given directly is accepted only if
\* its scheme, when present, is socks or http, the rest is host and port with
\* at most one more field, and the last field is a number; every other string
\* is a usage error.
C7_OutboundAcceptedOnlyIfWellFormed ==
    (opts # <<>> /\ user_args.TOR_mode = <<>> /\ user_args.OutboundProxy # <<>>) =>
        LET s == user_args.OutboundProxy
        IN  IF SchemeRecognised(s) /\ HostAndPort(s) /\ PortIsInt(s)
            THEN TRUE
            ELSE opts[1].status = "usage"

(***************************************************************************)
(* Properties of the plugin lists, checked under SpecPlugins.              *)
(***************************************************************************)
GroupsOf(list) == get_groups_for_plugins(Split(list, <<",">>))

\* C6: an only-plugins list that maps to no group or to several is a usage
\* error, and so is an except-plugins list that maps to several; in every
\* returned configuration PluginGroup is the one group of the only-plugins
\* list when that list is given and the group of the command line otherwise,
\* and a PluginType of 'all' is the types registered for that PluginGroup.
C6_PluginGroupResolution ==
    opts # <<>> =>
        LET st == opts[1]
            only == user_args.OnlyPlugins
            except == user_args.ExceptPlugins
            group == IF only # <<>> /\ Cardinality(GroupsOf(only)) = 1
                     THEN CHOOSE g \in GroupsOf(only) : TRUE
                     ELSE user_args.PluginGroup
        IN  /\ (only # <<>> /\ Cardinality(GroupsOf(only)) # 1) => st.status = "usage"
            /\ (except # <<>> /\ Cardinality(GroupsOf(except)) >= 2) =>
                   st.status = "usage"
            /\ st.status = "ok" =>
                   /\ Cfg(st).PluginGroup = group
                   /\ user_args.PluginType = "all" =>
                          Cfg(st).PluginType = get_types_for_plugin_group(group)

C6_Witness ==
    /\ opts # <<>>
    /\ opts[1].status = "ok"
    /\ user_args.PluginGroup = "network"
    /\ user_args.PluginType = "all"
    /\ user_args.OnlyPlugins = <<"p1", ",", "p2">>
    /\ user_args.ExceptPlugins = <<"p1">>
    /\ Cfg(opts[1]).PluginGroup = "web"
    /\ Cfg(opts[1]).PluginType = <<"passive", "semi_passive", "active", "grep">>

(***************************************************************************)
(* Properties of the scope, checked under SpecScope.                       *)
(***************************************************************************)
\* The lines of a file, by position: where each line starts and ends, and
\* what is left of it between its first and last atom that is not blank.
LineStarts(c) == {1} \cup {i + 1 : i \in {j \in 1..Len(c) : c[j] = "\n"}}

LineEnd(c, s) ==
    LET nl == {j \in s..Len(c) : c[j] = "\n"}
    IN  IF nl = {} THEN Len(c) ELSE (CHOOSE j \in nl : \A k \in nl : j <= k) - 1

Trimmed(c, s) ==
    LET keep == {j \in s..LineEnd(c, s) : c[j] \notin Whitespace}
    IN  IF keep = {} THEN <<>>
        ELSE SubSeq(c, CHOOSE j \in keep : \A k \in keep : j <= k,
                       CHOOSE j \in keep : \A k \in keep : k <= j)

ExpectedLines(c) ==
    LET starts == {s \in LineStarts(c) : Trimmed(c, s) # <<>>}
        nth(k) == CHOOSE s \in starts : Cardinality({t \in starts : t < s}) = k - 1
    IN  [k \in 1..Cardinality(starts) |-> Trimmed(c, nth(k))]

ScopeIsFile ==
    Len(user_args.Targets) = 1 /\ user_args.Targets[1] \in DOMAIN files

\* The target list the claims call resolved.
ExpectedScope ==
    IF ScopeIsFile THEN ExpectedLines(files[user_args.Targets[1]])
    ELSE user_args.Targets

\* The target list process_options ended with: the local scope, or the
\* auxiliary arguments once the scope was moved there.
ResolvedScope(st) ==
    IF st.status = "ok" /\ st.plugin_group = "auxiliary" THEN st.args ELSE st.scope

\* C8: a single positional argument that names a file is replaced by the
\* file's trimmed non-blank lines, in order, and a file without such a line
\* is a usage error; any other positional arguments are the target list as
\* given.
C8_ScopeResolution ==
    opts # <<>> =>
        IF ScopeIsFile /\ ExpectedScope = <<>>
        THEN /\ opts[1].status = "usage"
             /\ opts[1].error = "Please provide a scope file (1 target x line)"
        ELSE /\ ResolvedScope(opts[1]) = ExpectedScope
             /\ opts[1].error # "Please provide a scope file (1 target x line)"

C8_Witness ==
    /\ opts # <<>>
    /\ opts[1].status = "ok"
    /\ user_args.Targets = <<ScopePath>>
    /\ ScopePath \in DOMAIN files
    /\ files[ScopePath] = <<"a", "\n", "\n", "b", "\n">>
    /\ Cfg(opts[1]).Scope = << <<"a">>, <<"b">> >>

BeginsWithDash(t) == t # <<>> /\ t[1] = "-"

\* C9: a resolved target that begins with '-' is a usage error wherever it
\* stands in the list; a returned configuration holds no string beginning
\* with '-' in Scope or Args, and holds Scope = ['auxiliary'] with the
\* resolved list in Args for the auxiliary group, the resolved list in Scope
\* and empty Args otherwise.
C9_DashTargetsRejected ==
    opts # <<>> =>
        LET st == opts[1]
            resolved == ExpectedScope
        IN  /\ (\E i \in 1..Len(resolved) : BeginsWithDash(resolved[i])) =>
                   st.status = "usage"
            /\ st.status = "ok" =>
                   /\ \A i \in 1..Len(Cfg(st).Scope) : ~BeginsWithDash(Cfg(st).Scope[i])
                   /\ \A i \in 1..Len(Cfg(st).Args) : ~BeginsWithDash(Cfg(st).Args[i])
                   /\ IF Cfg(st).PluginGroup = "auxiliary"
                      THEN Cfg(st).Scope = << <<"auxiliary">> >>
                           /\ Cfg(st).Args = resolved
                      ELSE Cfg(st).Scope = resolved /\ Cfg(st).Args = <<>>

====
